---- MODULE Spec2Model ----
(***************************************************************************)
(* Forecasting engine of AI.py: prepare_data (windowing and scaling),      *)
(* build_model, train_model, predict_future (autoregressive rollout) and   *)
(* run_prediction, over the two artifact directories models/ and scalers/. *)
(*                                                                         *)
(* Numbers.  A fitted MinMaxScaler is the pair <<data_min, data_max>>; an  *)
(* absent scaler (Python None) is <<>>.  A scaled value v' = (v - min) /   *)
(* (max - min) is kept exactly as its numerator v - min over the scaler's  *)
(* range, so inverse_transform adds min back.  The forward pass of a       *)
(* fitted network is a black box: its outputs are inputs of the model.     *)
(***************************************************************************)
EXTENDS Integers, Sequences, FiniteSets, TLC

VARIABLES
    models,     \* the files of MODEL_DIR: path -> fitted model
    scalers,    \* the files of SCALER_DIR: path -> <<data_min, data_max>>
    calls,      \* handler calls made so far
    succeeded,  \* the train_model calls that returned a model
    pc,         \* "idle", or "done" when a handler call has just returned
    last,       \* the handler call that has just returned
    pd,         \* prepare_data called on its own
    fc,         \* predict_future called on its own
    ev,         \* evaluate_model called on its own
    tr          \* train_model calls running side by side

vars == <<models, scalers, calls, succeeded, pc, last, pd, fc, ev, tr>>

(***************************************************************************)
(* Bounds                                                                  *)
(***************************************************************************)
\* handler calls (train_model or run_prediction) in one run
MaxCalls == 2
\* prepare_data's window (default 60), scaled down
Window == 2
\* the "Steps to Predict" slider (1..100), scaled down
MaxSteps == 2
\* longest series and window handed to prepare_data on its own
MaxData == 4

\* the prices a fetched series is made of
Prices == {1, 2}
\* the scaled values a forward pass may return
PredVals == {0, 3}
\* the scaled values of a seed window handed to predict_future on its own
SeedVals == {0, 1}

(***************************************************************************)
(* Constants of the program                                                *)
(***************************************************************************)
\* COINS, cut to its first entry
COINS == [c \in {"Bitcoin (BTC)"} |-> "BTC-USD"]

\* the values of MODEL_TYPES
MODEL_TYPES == {"MLP", "GRU", "LSTM", "CNN-LSTM"}

\* INTERVALS, cut to its first two entries
INTERVALS == [i \in {"Hourly", "Daily"} |->
                 IF i = "Hourly" THEN "1h" ELSE "1d"]

\* delta_map, in hours
delta_map == [c \in {"1h", "1d", "1wk", "1mo"} |->
                 CASE c = "1h" -> 1
                   [] c = "1d" -> 24
                   [] c = "1wk" -> 168
                   [] c = "1mo" -> 720]

\* Python None, where a scaler, a path or a frame is expected
None == <<>>

(***************************************************************************)
(* Artifact files                                                          *)
(***************************************************************************)
\* f"{coin}_{model_type}_{interval}.keras" under MODEL_DIR
ModelPath(coin, model_type, interval) == <<coin, model_type, interval>>

\* f"{coin}_{interval}_scaler.save" under SCALER_DIR
ScalerPath(coin, interval) == <<coin, interval>>

\* os.path.exists
Exists(dir, path) == path \in DOMAIN dir

\* a write that keeps the file that is already there
WriteFileIfAbsent(dir, path, content) ==
    [p \in DOMAIN dir \cup {path} |-> IF p \in DOMAIN dir THEN dir[p]
                                      ELSE content]

\* joblib.dump / model.save: create or replace the file
WriteFile(dir, path, content) ==
    [p \in DOMAIN dir \cup {path} |-> IF p = path THEN content ELSE dir[p]]

NoFiles == [p \in {} |-> None]

(***************************************************************************)
(* MinMaxScaler                                                            *)
(***************************************************************************)
RECURSIVE SeqMin(_), SeqMax(_)
SeqMin(s) == IF Len(s) = 1 THEN s[1]
             ELSE LET m == SeqMin(Tail(s)) IN IF s[1] < m THEN s[1] ELSE m
SeqMax(s) == IF Len(s) = 1 THEN s[1]
             ELSE LET m == SeqMax(Tail(s)) IN IF s[1] > m THEN s[1] ELSE m

\* scaler.fit: remember data_min_ and data_max_
Fit(data) == <<SeqMin(data), SeqMax(data)>>

\* scaler.transform, as numerators over the scaler's range
Transform(scaler, data) == [i \in 1..Len(data) |-> data[i] - scaler[1]]

\* scaler.inverse_transform
InverseTransform(scaler, scaled) ==
    [i \in 1..Len(scaled) |-> scaled[i] + scaler[1]]

(***************************************************************************)
(* prepare_data                                                            *)
(***************************************************************************)
RECURSIVE WindowLoopTargetSlip(_, _, _, _, _)
\* the loop with y.append(scaled[i - 1]): the target is the window's last point
WindowLoopTargetSlip(scaled, window, i, x, y) ==
    IF i >= Len(scaled) THEN [x |-> x, y |-> y]
    ELSE WindowLoopTargetSlip(scaled, window, i + 1,
                              Append(x, SubSeq(scaled, i - window + 1, i)),
                              Append(y, scaled[i]))

RECURSIVE WindowLoop(_, _, _, _, _)
\* for i in range(window, len(scaled)): x.append(scaled[i - window:i]);
\* y.append(scaled[i])   (i is the 0-based Python index)
WindowLoop(scaled, window, i, x, y) ==
    IF i >= Len(scaled) THEN [x |-> x, y |-> y]
    ELSE WindowLoop(scaled, window, i + 1,
                    Append(x, SubSeq(scaled, i - window + 1, i)),
                    Append(y, scaled[i + 1]))

PrepareFailed == [ok |-> FALSE, x |-> <<>>, y |-> <<>>, scaler |-> None]

prepare_data(data, window, scaler) ==
    IF Len(data) = 0
    THEN \* fit_transform / transform reject an array of 0 samples
         PrepareFailed
    ELSE LET sc == IF scaler = None THEN Fit(data) ELSE scaler
             scaled == Transform(sc, data)
             w == WindowLoop(scaled, window, window, <<>>, <<>>)
         IN [ok |-> TRUE, x |-> w.x, y |-> w.y, scaler |-> sc]

(***************************************************************************)
(* predict_future                                                          *)
(***************************************************************************)
\* The arrays of predict_future: caller is the array the caller passed as
\* last_seq, local is the array the name input_seq is bound to, and alias
\* says that both names are bound to one array.
Buffers(last_seq) == [caller |-> last_seq, local |-> last_seq, alias |-> TRUE]

\* input_seq = last_seq.copy()
ArrayCopy(b) == [b EXCEPT !.local = b.caller, !.alias = FALSE]

\* np.roll with the sign of the shift lost
np_roll_forward(a, shift) ==
    [i \in 1..Len(a) |-> a[((i - 1 + shift) % Len(a)) + 1]]

\* np.roll(a, shift) along the first axis: a new array
np_roll(a, shift) ==
    [i \in 1..Len(a) |-> a[((i - 1 - shift) % Len(a)) + 1]]

\* input_seq = np.roll(input_seq, -1)
RollBack(b) == [b EXCEPT !.local = np_roll(b.local, -1), !.alias = FALSE]

\* input_seq[-1] = pred_scaled: writes into the array input_seq is bound to
SetLast(b, v) ==
    LET a == [b.local EXCEPT ![Len(b.local)] = v]
    IN [b EXCEPT !.local = a, !.caller = IF b.alias THEN a ELSE b.caller]

\* input_seq = np.vstack([input_seq[1:], [pred_scaled]]): a new array
VStackTail(b, v) ==
    [b EXCEPT !.local = Append(Tail(b.local), v), !.alias = FALSE]

\* the body of the loop after model.predict returned pred_scaled
SlideWindow(model_type, b, pred_scaled) ==
    IF model_type = "MLP" THEN SetLast(RollBack(b), pred_scaled)
    ELSE IF model_type = "CNN-LSTM" THEN SetLast(RollBack(b), pred_scaled)
    ELSE VStackTail(b, pred_scaled)

RECURSIVE PredictLoop(_, _, _, _, _)
\* for _ in range(steps_pred): preds[k] is what the k-th model.predict returns
PredictLoop(model_type, b, preds, predicted, fed) ==
    IF Len(predicted) = Len(preds)
    THEN [b |-> b, predicted |-> predicted, fed |-> fed]
    ELSE LET pred_scaled == preds[Len(predicted) + 1]
         IN PredictLoop(model_type, SlideWindow(model_type, b, pred_scaled),
                        preds, Append(predicted, pred_scaled),
                        Append(fed, b.local))

\* predict_future(model, last_seq, steps_pred, model_type, scaler); preds are
\* the steps_pred outputs of the forward passes
predict_future(last_seq, preds, model_type, scaler) ==
    LET r == PredictLoop(model_type, ArrayCopy(Buffers(last_seq)), preds,
                         <<>>, <<>>)
    IN IF scaler = None
       THEN \* None has no inverse_transform
            [ok |-> FALSE, prices |-> <<>>, passes |-> Len(r.fed)]
       ELSE [ok |-> TRUE, prices |-> InverseTransform(scaler, r.predicted),
             passes |-> Len(r.fed)]

(***************************************************************************)
(* evaluate_model                                                          *)
(***************************************************************************)
\* the digits kept of a square root: rmse is held in units of 1/Resolution
Resolution == 10

\* a - b with its sign kept
SignedDiff(a, b) == a - b

\* np.abs(y - preds), one element
AbsDiff(a, b) == IF a >= b THEN a - b ELSE b - a

RECURSIVE SumSquares(_, _), SumAbs(_, _)
\* the sum that mean_squared_error(y, preds) divides by len(y)
SumSquares(y, preds) ==
    IF Len(y) = 0 THEN 0
    ELSE (y[1] - preds[1]) * (y[1] - preds[1])
            + SumSquares(Tail(y), Tail(preds))

\* the sum that np.mean(np.abs(y - preds)) divides by len(y)
SumAbs(y, preds) ==
    IF Len(y) = 0 THEN 0
    ELSE AbsDiff(y[1], preds[1]) + SumAbs(Tail(y), Tail(preds))

RECURSIVE SqrtFrom(_, _, _)
\* np.sqrt(num / den), cut to a multiple of 1/Resolution: the search from r
SqrtFrom(num, den, r) ==
    IF (r + 1) * (r + 1) * den > num * Resolution * Resolution THEN r
    ELSE SqrtFrom(num, den, r + 1)

\* the except branch: return None, None, None
EvaluateFailed == [ok |-> FALSE, mse |-> <<0, 1>>, rmse |-> 0,
                   mae |-> <<0, 1>>]

\* x = x.reshape(x.shape[0], -1) for MLP: each window becomes one row of its
\* points (a window is held as the row of its single channel)
ReshapeFor(model_type, x) ==
    IF model_type = "MLP" THEN [i \in 1..Len(x) |-> x[i]] ELSE x

\* evaluate_model(model, x, y, model_type); preds is what model.predict(x)
\* returns, one value per window.  mse and mae are the fractions
\* <<sum, len(y)>>, in the unit of y and preds.
evaluate_model(x, y, model_type, preds) ==
    IF Len(ReshapeFor(model_type, x)) = 0 \/ Len(preds) # Len(y)
    THEN \* nothing to predict on, or arrays of different lengths: raises
         EvaluateFailed
    ELSE LET mse == <<SumSquares(y, preds), Len(y)>>
             rmse == SqrtFrom(mse[1], mse[2], 0)
             mae == <<SumAbs(y, preds), Len(y)>>
         IN [ok |-> TRUE, mse |-> mse, rmse |-> rmse, mae |-> mae]

(***************************************************************************)
(* build_model                                                             *)
(***************************************************************************)
\* Python None where a model is expected
NoModel == [model_type |-> "", input_shape |-> <<>>, id |-> 0,
            scaler |-> None]

\* an else branch that falls back to the LSTM layers
DefaultToLSTM(model_type, input_shape) ==
    [NoModel EXCEPT !.model_type = "LSTM", !.input_shape = input_shape]

\* the else branch: raise ValueError(f"Unknown model type: {model_type}")
UnknownModelType(model_type, input_shape) == NoModel

\* Sequential() with the layers of model_type, compiled; None when an
\* exception is raised while the layers are added
build_model(model_type, input_shape) ==
    IF model_type \in {"LSTM", "GRU", "CNN-LSTM"}
    THEN IF Len(input_shape) = 2
         THEN [NoModel EXCEPT !.model_type = model_type,
                              !.input_shape = input_shape]
         ELSE \* a recurrent or convolution layer rejects an input that is
              \* not [window, channel]
              NoModel
    ELSE IF model_type = "MLP"
    THEN IF Len(input_shape) >= 1
         THEN [NoModel EXCEPT !.model_type = model_type,
                              !.input_shape = <<input_shape[1]>>]
         ELSE NoModel
    ELSE UnknownModelType(model_type, input_shape)

(***************************************************************************)
(* train_model                                                             *)
(***************************************************************************)
\* x.shape of the array prepare_data returns: np.array([]) has shape (0,),
\* otherwise (pairs, window, 1)
Shape(x) == IF Len(x) = 0 THEN <<0>> ELSE <<Len(x), Len(x[1]), 1>>

\* what train_model returns: `arity` is the length of the returned tuple
\* (6 on the early returns, 7 otherwise)
ReturnNone(arity) == [arity |-> arity, model |-> NoModel,
                      model_path |-> None, scaler_path |-> None]

TrainEnd(ms, ss, ret, stage, built, fitted) ==
    [models |-> ms, scalers |-> ss, ret |-> ret, stage |-> stage,
     built |-> built, fitted |-> fitted]

\* a check that lets an empty answer through
FetchNeverFails(df) == FALSE

\* a train_model that never loads the stored scaler
AlwaysRefit(ss, scaler_path) == None

\* df is None or df.empty
FetchFailed(df) == Len(df) = 0

\* scaler = joblib.load(scaler_path) if os.path.exists(scaler_path) else None
LoadScalerIfExists(ss, scaler_path) ==
    IF Exists(ss, scaler_path) THEN ss[scaler_path] ELSE None

\* The faults of the collaborators a call can meet: model.fit, joblib.dump or
\* model.save raising.
Faults == {"none", "fit", "dump", "save"}

\* train_model(coin, model_type, interval) on the store <<ms, ss>>; df is what
\* fetch_historical_data returns (<<>>: None or an empty frame), id names
\* this fit.
train_model(ms, ss, id, coin, model_type, interval, df, fault) ==
    LET scaler_path == ScalerPath(coin, interval)
        scaler == LoadScalerIfExists(ss, scaler_path)
        p == prepare_data(df, Window, scaler)
        shape == Shape(p.x)
    IN IF FetchFailed(df)
       THEN TrainEnd(ms, ss, ReturnNone(6), "fetch", FALSE, FALSE)
       ELSE IF ~p.ok
       THEN TrainEnd(ms, ss, ReturnNone(6), "prepare", FALSE, FALSE)
       ELSE IF model_type = "MLP" /\ Len(shape) = 1 /\ shape[1] = 0
       THEN \* x.reshape(0, -1) raises on an array of size 0
            TrainEnd(ms, ss, ReturnNone(7), "reshape", FALSE, FALSE)
       ELSE IF model_type = "CNN-LSTM" /\ Len(shape) < 3
       THEN \* x.shape[1] raises IndexError
            TrainEnd(ms, ss, ReturnNone(7), "reshape", FALSE, FALSE)
       ELSE
       LET input_shape == IF model_type = "MLP"
                          THEN <<shape[2] * shape[3]>>
                          ELSE Tail(shape)
           model == build_model(model_type, input_shape)
           model_path == ModelPath(coin, model_type, interval)
           fitted == [model EXCEPT !.id = id, !.scaler = p.scaler]
           ss2 == WriteFile(ss, scaler_path, p.scaler)
       IN IF model = NoModel
          THEN TrainEnd(ms, ss, ReturnNone(6), "build", FALSE, FALSE)
          ELSE IF fault = "fit"
          THEN TrainEnd(ms, ss, ReturnNone(7), "fit", TRUE, FALSE)
          ELSE IF fault = "dump"
          THEN TrainEnd(ms, ss, ReturnNone(7), "dump", TRUE, TRUE)
          ELSE IF fault = "save"
          THEN TrainEnd(ms, ss2, ReturnNone(7), "save", TRUE, TRUE)
          ELSE TrainEnd(WriteFile(ms, model_path, fitted), ss2,
                        [arity |-> 7, model |-> fitted,
                         model_path |-> model_path,
                         scaler_path |-> scaler_path],
                        "ok", TRUE, TRUE)

\* train_model was not called
NotTrained(ms, ss) ==
    TrainEnd(ms, ss, ReturnNone(0), "", FALSE, FALSE)

(***************************************************************************)
(* run_prediction                                                          *)
(***************************************************************************)
\* df.index[-1], in hours: the rows of a fetched frame are one interval apart
LastDate(df, interval_code) == Len(df) * delta_map[interval_code]

\* future_dates = [last_date + delta * i for i in range(steps_pred)]
FutureDatesFromLast(last_date, delta, steps_pred) ==
    [i \in 1..steps_pred |-> last_date + delta * (i - 1)]

\* future_dates = [last_date + delta * (i + 1) for i in range(steps_pred)]
FutureDates(last_date, delta, steps_pred) ==
    [i \in 1..steps_pred |-> last_date + delta * i]

\* pd.DataFrame({"Date": future_dates, "Predicted Price": predicted_prices})
FutureFrame(future_dates, predicted_prices) ==
    [i \in 1..Len(future_dates) |-> <<future_dates[i], predicted_prices[i]>>]

\* how run_prediction ended: status is the st.error it showed ("ok": none)
PredictEnd(t, status, forecast, passes, metrics) ==
    [t |-> t, status |-> status, forecast |-> forecast, passes |-> passes,
     metrics |-> metrics]

\* the model file run_prediction looks for before it decides to train
CheckedModelPath(coin_pred, model_type_code, interval_display_name) ==
    ModelPath(coin_pred, model_type_code, INTERVALS[interval_display_name])

\* a request that trains whenever the model file is missing
ShouldTrainIgnoringFlag(ms, model_path, auto_train) == ~Exists(ms, model_path)

\* if not os.path.exists(model_path) and auto_train
ShouldTrain(ms, model_path, auto_train) ==
    ~Exists(ms, model_path) /\ auto_train

\* run_prediction with the widgets' values; df is what fetch_historical_data
\* returns for this request (cached for an hour, so both fetches agree)
run_prediction(ms, ss, id, coin_pred, model_type_code, interval_display_name, auto_train, steps_pred, df, fault, preds) ==
    LET interval_code == INTERVALS[interval_display_name]
        model_path0 == CheckedModelPath(coin_pred, model_type_code,
                                        interval_display_name)
        scaler_path0 == ScalerPath(coin_pred, interval_code)
        do_train == ShouldTrain(ms, model_path0, auto_train)
        t == IF do_train
             THEN train_model(ms, ss, id, coin_pred, model_type_code,
                              interval_display_name, df, fault)
             ELSE NotTrained(ms, ss)
        model_path == IF do_train THEN t.ret.model_path ELSE model_path0
        scaler_path == IF do_train THEN t.ret.scaler_path ELSE scaler_path0
    IN IF do_train /\ t.ret.arity # 7
       THEN \* unpacking 6 values into 7 names raises ValueError
            PredictEnd(t, "exception", <<>>, 0, FALSE)
       ELSE IF model_path = None
       THEN \* os.path.exists(None) raises TypeError
            PredictEnd(t, "exception", <<>>, 0, FALSE)
       ELSE IF ~Exists(t.models, model_path) \/ ~Exists(t.scalers, scaler_path)
       THEN PredictEnd(t, "not_found", <<>>, 0, FALSE)
       ELSE
       LET model == t.models[model_path]
           scaler == t.scalers[scaler_path]
           p == prepare_data(df, Window, scaler)
       IN IF FetchFailed(df)
          THEN PredictEnd(t, "fetch_failed", <<>>, 0, FALSE)
          ELSE IF ~p.ok
          THEN PredictEnd(t, "prepare_failed", <<>>, 0, FALSE)
          ELSE IF Len(p.x) = 0
          THEN \* x[-1] raises IndexError
               PredictEnd(t, "exception", <<>>, 0, FALSE)
          ELSE
          LET last_seq == p.x[Len(p.x)]
              f == predict_future(last_seq, preds, model_type_code, scaler)
              last_date == LastDate(df, interval_code)
              delta == delta_map[interval_code]
              future_dates == FutureDates(last_date, delta, steps_pred)
          IN IF ~f.ok
             THEN PredictEnd(t, "prediction_failed", <<>>, f.passes, FALSE)
             ELSE PredictEnd(t, "ok", FutureFrame(future_dates, f.prices),
                             f.passes, TRUE)

(***************************************************************************)
(* The application: one handler call at a time                             *)
(***************************************************************************)
\* the sequences over S of length at most n
SeqsOver(S, n) == UNION {[1..k -> S] : k \in 0..n}

\* the scalers a fit on prices can give
FittedScalers == {sc \in Prices \X Prices : sc[1] <= sc[2]}

\* what fetch_historical_data may return
Feed == SeqsOver(Prices, Window + 1)

\* the harness of prepare_data, idle
PdIdle == [pc |-> "idle", data |-> <<>>, window |-> 0, scaler |-> None,
           res |-> PrepareFailed]

\* the harness of predict_future, idle
FcIdle == [pc |-> "idle", model_type |-> "", seed |-> <<>>, steps_pred |-> 0,
           scaler |-> None, b |-> Buffers(<<>>), predicted |-> <<>>,
           fed |-> <<>>, prices |-> <<>>]

\* the harness of evaluate_model, idle
EvIdle == [pc |-> "idle", model_type |-> "", x |-> <<>>, y |-> <<>>,
           preds |-> <<>>, res |-> EvaluateFailed]

\* no train_model call is running side by side with another
TrIdle == <<>>

\* no call has been made since the script started
LastIdle == [op |-> "", coin |-> "", model_type |-> "", interval |-> "",
             auto_train |-> FALSE, steps_pred |-> 0, df |-> <<>>,
             preds |-> <<>>, id |-> 0, prior |-> FALSE,
             models0 |-> NoFiles, scalers0 |-> NoFiles,
             trained |-> FALSE, stage |-> "", built |-> FALSE,
             fitted |-> FALSE, ret |-> ReturnNone(0),
             status |-> "", forecast |-> <<>>, passes |-> 0,
             metrics |-> FALSE]

Init ==
    /\ models = NoFiles
    /\ scalers = NoFiles
    /\ calls = 0
    /\ succeeded = {}
    /\ pc = "idle"
    /\ last = LastIdle
    /\ pd = PdIdle
    /\ fc = FcIdle
    /\ ev = EvIdle
    /\ tr = TrIdle

\* what a call leaves behind: the store, the record of the call, and in
\* `succeeded` the log of the train_model calls that returned a model, each
\* as <<coin, model_type, interval, number of the call>>
Finish(op, coin, model_type, interval, auto_train, steps_pred, df, preds, r) ==
    /\ models' = r.t.models
    /\ scalers' = r.t.scalers
    /\ calls' = calls + 1
    /\ succeeded' = IF r.t.stage = "ok"
                    THEN succeeded \cup
                            {<<coin, model_type, interval, calls + 1>>}
                    ELSE succeeded
    /\ pc' = "done"
    /\ last' = [LastIdle EXCEPT
                  !.op = op, !.coin = coin, !.model_type = model_type,
                  !.interval = interval, !.auto_train = auto_train,
                  !.steps_pred = steps_pred, !.df = df, !.preds = preds,
                  !.id = calls + 1,
                  !.prior = \E s \in succeeded :
                              <<s[1], s[2], s[3]>> =
                                 <<coin, model_type, interval>>,
                  !.models0 = models, !.scalers0 = scalers,
                  !.trained = r.t.stage # "", !.stage = r.t.stage,
                  !.built = r.t.built, !.fitted = r.t.fitted,
                  !.ret = r.t.ret,
                  !.status = r.status, !.forecast = r.forecast,
                  !.passes = r.passes, !.metrics = r.metrics]
    /\ UNCHANGED <<pd, fc, ev, tr>>

\* the faults worth choosing for a call that would otherwise end in `stage`
FaultsAt(stage) == IF stage = "ok" THEN Faults ELSE {"none"}

\* the forward-pass outputs worth choosing for a call that ends in `status`
PredsAt(status, steps_pred) ==
    IF status = "ok" THEN [1..steps_pred -> PredVals] ELSE {<<>>}

\* a call of train_model(coin, model_type, interval)
Train ==
    /\ pc = "idle"
    /\ calls < MaxCalls
    /\ \E coin \in DOMAIN COINS, model_type \in MODEL_TYPES \cup {"RNN"},
          interval \in DOMAIN INTERVALS, df \in Feed :
          \E fault \in FaultsAt(train_model(models, scalers, calls + 1, coin,
                                           model_type, interval, df,
                                           "none").stage) :
             LET t == train_model(models, scalers, calls + 1, coin,
                                  model_type, interval, df, fault)
             IN Finish("train", coin, model_type, interval, FALSE, 0, df,
                       <<>>, PredictEnd(t, "", <<>>, 0, FALSE))

\* the slider values worth choosing: a call that does not end in "ok"
\* returns before it reads steps_pred
StepsAt(status) == IF status = "ok" THEN 1..MaxSteps ELSE {1}

\* the "Predict Future Prices" button
RunPrediction ==
    /\ pc = "idle"
    /\ calls < MaxCalls
    /\ \E coin_pred \in DOMAIN COINS, model_type_code \in MODEL_TYPES,
          interval_display_name \in DOMAIN INTERVALS,
          auto_train \in BOOLEAN, df \in Feed :
          \E fault \in FaultsAt(run_prediction(models, scalers, calls + 1,
                                   coin_pred, model_type_code,
                                   interval_display_name, auto_train, 0, df,
                                   "none", <<>>).t.stage) :
             \E steps_pred \in StepsAt(run_prediction(models, scalers,
                                   calls + 1, coin_pred, model_type_code,
                                   interval_display_name, auto_train, 0, df,
                                   fault, <<>>).status) :
                \E preds \in PredsAt(run_prediction(models, scalers,
                                   calls + 1, coin_pred, model_type_code,
                                   interval_display_name, auto_train, 0, df,
                                   fault, <<>>).status, steps_pred) :
                   Finish("predict", coin_pred, model_type_code,
                          interval_display_name, auto_train, steps_pred,
                          df, preds,
                          run_prediction(models, scalers, calls + 1,
                             coin_pred, model_type_code,
                             interval_display_name, auto_train,
                             steps_pred, df, fault, preds))

\* the script runs again from the top: the locals of the last call are gone
Rerun ==
    /\ pc = "done"
    /\ pc' = "idle"
    /\ last' = LastIdle
    /\ UNCHANGED <<models, scalers, calls, succeeded, pd, fc, ev, tr>>

Next == Train \/ RunPrediction \/ Rerun

Spec == Init /\ [][Next]_vars

\* the four architecture tags
FourTags == {"MLP", "GRU", "LSTM", "CNN-LSTM"}

\* a call has returned and it ran train_model
TrainReturned == pc = "done" /\ last.trained

\* the call that has returned left the store as it found it
StoreUntouched == models = last.models0 /\ scalers = last.scalers0

\* the number of the last train_model call that returned a model for a key
RECURSIVE MaxOf(_)
MaxOf(S) == IF S = {} THEN 0
            ELSE LET n == CHOOSE n \in S : TRUE
                     m == MaxOf(S \ {n})
                 IN IF n > m THEN n ELSE m

LatestSuccess(coin, model_type, interval) ==
    MaxOf({s[4] : s \in {u \in succeeded :
                           <<u[1], u[2], u[3]>> =
                              <<coin, model_type, interval>>}})

(***************************************************************************)
(* C2 (train_model): a train call on a series of length L <= window aborts *)
(* at window construction, before a model is built or fitted.              *)
(***************************************************************************)
C2_TrainAbortsBeforeBuild ==
    (TrainReturned /\ Len(last.df) >= 1 /\ Len(last.df) <= Window) =>
        last.stage = "prepare"

(***************************************************************************)
(* C4: a successful forecast with horizon H has exactly H (timestamp,      *)
(* price) entries from exactly H forward passes, in prediction order; the  *)
(* timestamps increase strictly and the i-th is the last historical        *)
(* timestamp plus i interval steps (24 hours each for "1d").               *)
(***************************************************************************)
C4_ForecastEntries ==
    (pc = "done" /\ last.op = "predict" /\ last.status = "ok") =>
        LET H == last.steps_pred
            code == INTERVALS[last.interval]
            step == IF code = "1d" THEN 24 ELSE delta_map[code]
            last_date == LastDate(last.df, code)
            scaler == scalers[last.ret.scaler_path]
        IN /\ Len(last.forecast) = H
           /\ last.passes = H
           /\ \A i \in 1..H :
                 /\ last.forecast[i][1] = last_date + i * step
                 /\ last.forecast[i][2] = last.preds[i] + scaler[1]
           /\ \A i \in 1..H : \A j \in 1..H :
                 i < j => last.forecast[i][1] < last.forecast[j][1]

C4_Witness ==
    /\ pc = "done"
    /\ last.op = "predict"
    /\ last.status = "ok"
    /\ last.interval = "Daily"
    /\ last.steps_pred = 2
    /\ last.forecast[1][2] # last.forecast[2][2]
    /\ last.forecast[2][1] = last.forecast[1][1] + 24

(***************************************************************************)
(* C5: once a train call for (instrument, architecture, interval) has      *)
(* succeeded, every later prediction request for the same selection passes *)
(* the existence check and reuses the stored model and scaler without      *)
(* training again, with auto-train on or off.                              *)
(***************************************************************************)
C5_TrainedModelIsReused ==
    (pc = "done" /\ last.op = "predict" /\ last.prior) =>
        (~last.trained /\ last.status # "not_found")

(***************************************************************************)
(* C6: a train call that fails at any step leaves the store exactly as it  *)
(* was before the call.                                                    *)
(***************************************************************************)
C6_FailedTrainLeavesStore ==
    (TrainReturned /\ last.stage # "ok") => StoreUntouched

(***************************************************************************)
(* C7: build_model returns a model only for MLP, GRU, LSTM and CNN-LSTM;   *)
(* for any other tag it returns no model, and the train call aborts before *)
(* fitting and writes nothing to the store.                                *)
(***************************************************************************)
C7_UnknownTagAborts ==
    TrainReturned =>
        /\ last.built => last.model_type \in FourTags
        /\ last.model_type \notin FourTags =>
              /\ ~last.built
              /\ ~last.fitted
              /\ last.stage # "ok"
              /\ last.ret.model = NoModel
              /\ StoreUntouched

C7_Witness ==
    /\ TrainReturned
    /\ last.model_type = "RNN"
    /\ Len(last.df) > Window
    /\ last.stage = "build"
    /\ scalers # NoFiles

(***************************************************************************)
(* C8: after any sequence of train calls the store holds at most one model *)
(* per (instrument, architecture, interval), the one of the most recent    *)
(* successful train for that key; a put on a key replaces the earlier      *)
(* artifact and leaves the models under every other key unchanged.         *)
(***************************************************************************)
C8_LatestModelPerKey ==
    /\ \A s \in succeeded :
          LET path == ModelPath(s[1], s[2], s[3])
          IN /\ Exists(models, path)
             /\ models[path].id = LatestSuccess(s[1], s[2], s[3])
             /\ models[path].model_type = s[2]
    /\ Cardinality(DOMAIN models) =
          Cardinality({<<s[1], s[2], s[3]>> : s \in succeeded})
    /\ (TrainReturned /\ last.stage = "ok") =>
          /\ models[last.ret.model_path].id = last.id
          /\ DOMAIN models = DOMAIN last.models0 \cup {last.ret.model_path}
          /\ \A path \in DOMAIN last.models0 \ {last.ret.model_path} :
                models[path] = last.models0[path]

C8_Witness ==
    /\ TrainReturned
    /\ last.stage = "ok"
    /\ last.prior
    /\ Exists(last.models0, last.ret.model_path)
    /\ last.models0[last.ret.model_path].id = 1
    /\ models[last.ret.model_path].id = 2

(***************************************************************************)
(* C9: once a scaler is stored for (instrument, interval) its min and max  *)
(* never change: a later train for the pair, with any tag and any series,  *)
(* loads it, scales with it without refitting and writes it back; a scaler *)
(* is fitted (to the min and max of the fetched series) only when none is  *)
(* stored for the pair.                                                    *)
(***************************************************************************)
C9_StoredScalerIsKept ==
    pc = "done" =>
        /\ \A path \in DOMAIN last.scalers0 :
              Exists(scalers, path) /\ scalers[path] = last.scalers0[path]
        /\ \A path \in DOMAIN scalers \ DOMAIN last.scalers0 :
              /\ last.trained
              /\ path = <<last.coin, last.interval>>
              /\ \A i \in 1..Len(last.df) :
                    scalers[path][1] <= last.df[i]
                       /\ last.df[i] <= scalers[path][2]
              /\ \E i \in 1..Len(last.df) : scalers[path][1] = last.df[i]
              /\ \E i \in 1..Len(last.df) : scalers[path][2] = last.df[i]
        /\ (last.trained /\ last.stage = "ok") =>
              /\ Exists(scalers, last.ret.scaler_path)
              /\ models[last.ret.model_path].scaler =
                    scalers[last.ret.scaler_path]

C9_Witness ==
    /\ TrainReturned
    /\ last.stage = "ok"
    /\ Exists(last.scalers0, last.ret.scaler_path)
    /\ ~Exists(last.models0, last.ret.model_path)
    /\ \E i \in 1..Len(last.df) :
          last.df[i] > scalers[last.ret.scaler_path][2]

(***************************************************************************)
(* C10: when the data collaborator returns an empty or missing series,     *)
(* train returns its data-unavailable failure without writing a model or a *)
(* scaler, and the prediction request that called it ends by reporting an  *)
(* error, with no forecast and no metrics.                                 *)
(***************************************************************************)
C10_NoDataNoForecast ==
    (TrainReturned /\ Len(last.df) = 0) =>
        /\ last.stage = "fetch"
        /\ last.ret.model = NoModel
        /\ ~last.built
        /\ StoreUntouched
        /\ last.op = "predict" =>
              /\ last.status \in {"exception", "not_found", "fetch_failed"}
              /\ last.forecast = <<>>
              /\ last.passes = 0
              /\ ~last.metrics

C10_Witness ==
    /\ TrainReturned
    /\ last.op = "predict"
    /\ Len(last.df) = 0
    /\ last.status = "exception"
    /\ Exists(scalers, ScalerPath(last.coin, last.interval))
    /\ models # NoFiles

(***************************************************************************)
(* prepare_data on its own                                                 *)
(***************************************************************************)
PrepareInit ==
    /\ models = NoFiles /\ scalers = NoFiles /\ calls = 0 /\ succeeded = {}
    /\ pc = "idle" /\ last = LastIdle /\ fc = FcIdle
    /\ ev = EvIdle /\ tr = TrIdle
    /\ \E data \in SeqsOver(Prices, MaxData), window \in 1..MaxData,
          scaler \in {None} \cup FittedScalers :
          pd = [PdIdle EXCEPT !.data = data, !.window = window,
                              !.scaler = scaler]

PrepareCall ==
    /\ pd.pc = "idle"
    /\ pd' = [pd EXCEPT !.pc = "done",
                        !.res = prepare_data(pd.data, pd.window, pd.scaler)]
    /\ UNCHANGED <<models, scalers, calls, succeeded, pc, last, fc, ev, tr>>

SpecPrepare == PrepareInit /\ [][PrepareCall]_vars

(***************************************************************************)
(* C1: for a series of length L > window, prepare_data returns exactly     *)
(* L - window (window, target) pairs in chronological order; pair i        *)
(* (0-based) is the scaled values at positions i .. i+window-1 and its     *)
(* target is the scaled value at position i+window.                        *)
(***************************************************************************)
C1_WindowsAndTargets ==
    (pd.pc = "done" /\ Len(pd.data) > pd.window) =>
        LET L == Len(pd.data)
            w == pd.window
            scaled == Transform(pd.res.scaler, pd.data)
        IN /\ pd.res.ok
           /\ Len(pd.res.x) = L - w
           /\ Len(pd.res.y) = L - w
           /\ \A i \in 0..(L - w - 1) :
                 /\ Len(pd.res.x[i + 1]) = w
                 /\ \A j \in 0..(w - 1) :
                       pd.res.x[i + 1][j + 1] = scaled[i + j + 1]
                 /\ pd.res.y[i + 1] = scaled[i + w + 1]

C1_Witness ==
    /\ pd.pc = "done"
    /\ pd.window = 2
    /\ Len(pd.data) = 4
    /\ pd.scaler = None
    /\ Len(pd.res.x) = 2
    /\ pd.res.x[1] # pd.res.x[2]
    /\ pd.res.y[1] # pd.res.y[2]

(***************************************************************************)
(* C2: for a series of length L <= window, window construction fails with  *)
(* an error instead of returning an empty set of pairs.                    *)
(***************************************************************************)
C2_ShortSeriesFails ==
    (pd.pc = "done" /\ Len(pd.data) <= pd.window) => ~pd.res.ok

(***************************************************************************)
(* predict_future on its own, one loop iteration per step                  *)
(***************************************************************************)
ForecastInit ==
    /\ models = NoFiles /\ scalers = NoFiles /\ calls = 0 /\ succeeded = {}
    /\ pc = "idle" /\ last = LastIdle /\ pd = PdIdle
    /\ ev = EvIdle /\ tr = TrIdle
    /\ \E model_type \in MODEL_TYPES, w \in 1..(Window + 1),
          steps_pred \in 1..(MaxSteps + 1), scaler \in FittedScalers :
          \E last_seq \in [1..w -> SeedVals] :
             fc = [FcIdle EXCEPT !.model_type = model_type,
                                 !.seed = last_seq,
                                 !.steps_pred = steps_pred,
                                 !.scaler = scaler,
                                 !.b = Buffers(last_seq)]

ForecastEnter ==
    /\ fc.pc = "idle"
    /\ fc' = [fc EXCEPT !.pc = "loop", !.b = ArrayCopy(fc.b)]
    /\ UNCHANGED <<models, scalers, calls, succeeded, pc, last, pd, ev, tr>>

ForecastStep ==
    /\ fc.pc = "loop"
    /\ Len(fc.predicted) < fc.steps_pred
    /\ \E pred_scaled \in PredVals :
          fc' = [fc EXCEPT
                   !.b = SlideWindow(fc.model_type, fc.b, pred_scaled),
                   !.predicted = Append(fc.predicted, pred_scaled),
                   !.fed = Append(fc.fed, fc.b.local)]
    /\ UNCHANGED <<models, scalers, calls, succeeded, pc, last, pd, ev, tr>>

ForecastReturn ==
    /\ fc.pc = "loop"
    /\ Len(fc.predicted) = fc.steps_pred
    /\ fc' = [fc EXCEPT !.pc = "done",
                        !.prices = InverseTransform(fc.scaler, fc.predicted)]
    /\ UNCHANGED <<models, scalers, calls, succeeded, pc, last, pd, ev, tr>>

ForecastNext == ForecastEnter \/ ForecastStep \/ ForecastReturn

SpecForecast == ForecastInit /\ [][ForecastNext]_vars

\* the last n elements of s
LastN(s, n) == SubSeq(s, Len(s) - n + 1, Len(s))

(***************************************************************************)
(* C3: in predict_future, for each architecture tag and horizon, the       *)
(* rolling window keeps the seed's length w at every step; the window fed  *)
(* to the k-th forward pass is the last w elements of the seed followed by *)
(* the first k-1 predictions (so pass k >= 2 sees prediction k-1 as its    *)
(* newest element), and the caller's seed array is never modified.         *)
(***************************************************************************)
C3_RollingWindow ==
    (fc.pc \in {"loop", "done"}) =>
        LET w == Len(fc.seed)
        IN /\ Len(fc.b.local) = w
           /\ fc.b.local = LastN(fc.seed \o fc.predicted, w)
           /\ Len(fc.fed) = Len(fc.predicted)
           /\ \A k \in 1..Len(fc.fed) :
                 /\ fc.fed[k] =
                       LastN(fc.seed \o SubSeq(fc.predicted, 1, k - 1), w)
                 /\ k >= 2 => fc.fed[k][w] = fc.predicted[k - 1]
           /\ fc.b.caller = fc.seed

C3_Witness ==
    /\ fc.pc = "done"
    /\ fc.model_type = "MLP"
    /\ Len(fc.seed) = 2
    /\ Len(fc.fed) = 3
    /\ fc.predicted[1] # fc.predicted[2]
    /\ fc.fed[3] = <<fc.predicted[1], fc.predicted[2]>>
    /\ fc.fed[3] # fc.seed

(***************************************************************************)
(* evaluate_model on its own: x and y are what prepare_data returns for a  *)
(* fetched series, as in run_prediction                                    *)
(***************************************************************************)
\* the scaled values a batched forward pass may return
EvalVals == PredVals \cup SeedVals

EvaluateInit ==
    /\ models = NoFiles /\ scalers = NoFiles /\ calls = 0 /\ succeeded = {}
    /\ pc = "idle" /\ last = LastIdle /\ pd = PdIdle /\ fc = FcIdle
    /\ tr = TrIdle
    /\ \E data \in SeqsOver(Prices, Window + 3) \ {<<>>},
          model_type \in MODEL_TYPES :
          LET p == prepare_data(data, Window, None)
          IN ev = [EvIdle EXCEPT !.model_type = model_type,
                                 !.x = p.x, !.y = p.y]

EvaluateCall ==
    /\ ev.pc = "idle"
    /\ \E preds \in [1..Len(ev.x) -> EvalVals] :
          ev' = [ev EXCEPT !.pc = "done", !.preds = preds,
                           !.res = evaluate_model(ev.x, ev.y, ev.model_type,
                                                  preds)]
    /\ UNCHANGED <<models, scalers, calls, succeeded, pc, last, pd, fc, tr>>

SpecEvaluate == EvaluateInit /\ [][EvaluateCall]_vars

\* f[1] + ... + f[n]
RECURSIVE SumTo(_, _)
SumTo(f, n) == IF n = 0 THEN 0 ELSE f[n] + SumTo(f, n - 1)

(***************************************************************************)
(* C11: evaluate_model compares predictions with targets as they are given *)
(* (scaled, no inverse scaling): mse is the mean squared element-wise      *)
(* error, rmse is the square root of mse (to 1/Resolution), mae is the     *)
(* mean absolute element-wise error; when the targets equal the            *)
(* predictions mse = 0, rmse = 0 and mae = 0.                              *)
(***************************************************************************)
C11_ScaledDomainMetrics ==
    (ev.pc = "done" /\ Len(ev.y) >= 1) =>
        LET N == Len(ev.y)
            err == [i \in 1..N |-> ev.y[i] - ev.preds[i]]
            sq == [i \in 1..N |-> err[i] * err[i]]
            abs == [i \in 1..N |-> IF err[i] < 0 THEN 0 - err[i] ELSE err[i]]
            R == Resolution
            r == ev.res.rmse
        IN /\ ev.res.ok
           /\ ev.res.mse = <<SumTo(sq, N), N>>
           /\ ev.res.mae = <<SumTo(abs, N), N>>
           /\ r >= 0
           /\ r * r * ev.res.mse[2] <= ev.res.mse[1] * R * R
           /\ ev.res.mse[1] * R * R < (r + 1) * (r + 1) * ev.res.mse[2]
           /\ ev.y = ev.preds =>
                 ev.res.mse[1] = 0 /\ r = 0 /\ ev.res.mae[1] = 0

C11_Witness ==
    /\ ev.pc = "done"
    /\ ev.model_type = "MLP"
    /\ Len(ev.y) = 3
    /\ ev.y[1] < ev.preds[1]
    /\ ev.y[2] > ev.preds[2]
    /\ ev.res.mse[1] > ev.res.mae[1]
    /\ ev.res.rmse > 0

C11_ZeroWitness ==
    /\ ev.pc = "done"
    /\ Len(ev.y) = 2
    /\ ev.y[1] # ev.y[2]
    /\ ev.y = ev.preds
    /\ ev.res.ok
    /\ ev.res.rmse = 0

(***************************************************************************)
(* Two train_model calls side by side (two sessions of the script), for    *)
(* one coin and one interval and two architecture tags, on an empty store. *)
(* A call is cut where it meets the world: the fetch, the read of the      *)
(* scaler file, the dump of the scaler, the save of the model.  What lies  *)
(* between the read and the dump works on the call's own variables.        *)
(***************************************************************************)
Sessions == {1, 2}

\* a train_model call about to fetch
TrainStart(coin, model_type, interval) ==
    [pc |-> "fetch", coin |-> coin, model_type |-> model_type,
     interval |-> interval, df |-> <<>>, t |-> NotTrained(NoFiles, NoFiles)]

ConcInit ==
    /\ models = NoFiles /\ scalers = NoFiles /\ calls = 0 /\ succeeded = {}
    /\ pc = "idle" /\ last = LastIdle /\ pd = PdIdle /\ fc = FcIdle
    /\ ev = EvIdle
    /\ \E coin \in DOMAIN COINS, interval \in DOMAIN INTERVALS,
          a \in MODEL_TYPES, b \in MODEL_TYPES :
          /\ a # b
          /\ tr = [i \in Sessions |->
                     TrainStart(coin, IF i = 1 THEN a ELSE b, interval)]

\* df = fetch_historical_data(symbol, INTERVALS[interval])
ConcFetch(i) ==
    /\ tr[i].pc = "fetch"
    /\ \E df \in Feed :
          tr' = [tr EXCEPT ![i].df = df,
                           ![i].pc = IF FetchFailed(df) THEN "done"
                                     ELSE "load"]
    /\ UNCHANGED <<models, scalers, calls, succeeded, pc, last, pd, fc, ev>>

\* the scaler file is looked up and read, then the call prepares its data,
\* builds its model and fits it
ConcLoadAndFit(i) ==
    /\ tr[i].pc = "load"
    /\ LET t == train_model(models, scalers, i, tr[i].coin, tr[i].model_type,
                            tr[i].interval, tr[i].df, "none")
       IN tr' = [tr EXCEPT ![i].t = t,
                           ![i].pc = IF t.stage = "ok" THEN "dump"
                                     ELSE "done"]
    /\ UNCHANGED <<models, scalers, calls, succeeded, pc, last, pd, fc, ev>>

\* joblib.dump(scaler, scaler_path)
ConcDump(i) ==
    /\ tr[i].pc = "dump"
    /\ scalers' = WriteFile(scalers, tr[i].t.ret.scaler_path,
                            tr[i].t.ret.model.scaler)
    /\ tr' = [tr EXCEPT ![i].pc = "save"]
    /\ UNCHANGED <<models, calls, succeeded, pc, last, pd, fc, ev>>

\* model.save(model_path)
ConcSave(i) ==
    /\ tr[i].pc = "save"
    /\ models' = WriteFile(models, tr[i].t.ret.model_path, tr[i].t.ret.model)
    /\ tr' = [tr EXCEPT ![i].pc = "done"]
    /\ UNCHANGED <<scalers, calls, succeeded, pc, last, pd, fc, ev>>

ConcNext ==
    \E i \in Sessions :
       \/ ConcFetch(i)
       \/ ConcLoadAndFit(i)
       \/ ConcDump(i)
       \/ ConcSave(i)

SpecConc == ConcInit /\ [][ConcNext]_vars

(***************************************************************************)
(* C12: when two train calls for one (coin, interval) with different       *)
(* architecture tags have both returned, having started on a store with no *)
(* scaler for the pair, every model in the store was fitted on windows     *)
(* scaled by the scaler that the store holds for (coin, interval).         *)
(***************************************************************************)
C12_ModelsMatchStoredScaler ==
    (tr # TrIdle /\ \A i \in Sessions : tr[i].pc = "done") =>
        \A p \in DOMAIN models :
           /\ Exists(scalers, ScalerPath(p[1], p[3]))
           /\ models[p].scaler = scalers[ScalerPath(p[1], p[3])]

(***************************************************************************)
(* Requests with the auto-train box unticked, on a store that may hold     *)
(* files when the script starts: models/ and scalers/ are directories of   *)
(* the deployment, and a file may sit under the name run_prediction looks  *)
(* for (interval code) or under the name train_model writes (display name) *)
(***************************************************************************)
\* the interval part of an artifact's file name
IntervalKeys == DOMAIN INTERVALS \cup {INTERVALS[d] : d \in DOMAIN INTERVALS}

\* a model file found in models/: fitted before the script started
InstalledModel(model_type, scaler) ==
    [build_model(model_type,
                 IF model_type = "MLP" THEN <<Window>> ELSE <<Window, 1>>)
       EXCEPT !.scaler = scaler]

InstalledInit ==
    /\ calls = 0 /\ succeeded = {}
    /\ pc = "idle" /\ last = LastIdle /\ pd = PdIdle /\ fc = FcIdle
    /\ ev = EvIdle /\ tr = TrIdle
    /\ \E coin \in DOMAIN COINS, model_type \in MODEL_TYPES,
          key \in IntervalKeys, sc \in FittedScalers,
          has_model \in BOOLEAN, has_scaler \in BOOLEAN :
          /\ models = IF has_model
                      THEN WriteFile(NoFiles,
                                     ModelPath(coin, model_type, key),
                                     InstalledModel(model_type, sc))
                      ELSE NoFiles
          /\ scalers = IF has_scaler
                       THEN WriteFile(NoFiles, ScalerPath(coin, key), sc)
                       ELSE NoFiles

\* the "Predict Future Prices" button with auto_train unticked
RequestNoTrain ==
    /\ pc = "idle"
    /\ calls < MaxCalls
    /\ \E coin_pred \in DOMAIN COINS, model_type_code \in MODEL_TYPES,
          interval_display_name \in DOMAIN INTERVALS, df \in Feed :
          \E steps_pred \in StepsAt(run_prediction(models, scalers,
                                   calls + 1, coin_pred, model_type_code,
                                   interval_display_name, FALSE, 0, df,
                                   "none", <<>>).status) :
             \E preds \in PredsAt(run_prediction(models, scalers,
                                   calls + 1, coin_pred, model_type_code,
                                   interval_display_name, FALSE, 0, df,
                                   "none", <<>>).status, steps_pred) :
                Finish("predict", coin_pred, model_type_code,
                       interval_display_name, FALSE, steps_pred, df, preds,
                       run_prediction(models, scalers, calls + 1,
                          coin_pred, model_type_code, interval_display_name,
                          FALSE, steps_pred, df, "none", preds))

RequestNext == RequestNoTrain \/ Rerun

SpecRequest == InstalledInit /\ [][RequestNext]_vars

\* the model file and the scaler file of the selection of the last request
\* were both in the store when the request was made
SelectionStored ==
    /\ Exists(last.models0,
              CheckedModelPath(last.coin, last.model_type, last.interval))
    /\ Exists(last.scalers0,
              ScalerPath(last.coin, INTERVALS[last.interval]))

(***************************************************************************)
(* C13: a prediction request with auto-train disabled never calls          *)
(* train_model and leaves the store as it found it; when the model file or *)
(* the scaler file of the selection is missing it ends with the not-found  *)
(* error and no forecast, and when both are there it goes on to use them.  *)
(***************************************************************************)
C13_NoAutoTrainOnlyReads ==
    (pc = "done" /\ last.op = "predict" /\ ~last.auto_train) =>
        /\ ~last.trained
        /\ StoreUntouched
        /\ ~SelectionStored =>
              last.status = "not_found" /\ last.forecast = <<>>
        /\ SelectionStored => last.status # "not_found"

C13_Witness ==
    /\ pc = "done" /\ last.op = "predict" /\ ~last.auto_train
    /\ SelectionStored
    /\ last.status = "ok"
    /\ Len(last.forecast) = last.steps_pred
    /\ StoreUntouched

C13_MissingWitness ==
    /\ pc = "done" /\ last.op = "predict" /\ ~last.auto_train
    /\ Exists(last.scalers0, ScalerPath(last.coin, INTERVALS[last.interval]))
    /\ ~SelectionStored
    /\ last.status = "not_found"
    /\ models # NoFiles

====
